---- MODULE Spec2Model ----
(***************************************************************************)
(* Model of the creature creation form of PokeMaker                        *)
(* (src/src/pages/CreatePokemon.tsx) and of the database wrappers it calls *)
(* (src/src/services/supabase.ts).                                         *)
(*                                                                         *)
(* One editing session is one mounted CreatePokemon component.  Its React  *)
(* state, the react-hook-form values, the browser timers and the async     *)
(* handlers in flight are the state.  Every await of a handler is a point  *)
(* where other callbacks may run, so a handler is a task that moves from   *)
(* one program counter to the next.                                        *)
(***************************************************************************)
EXTENDS Integers, Sequences, FiniteSets, TLC

\* ------------------------------------------------------------------ bounds
MaxEdits == 2
MaxTasks == 2
MaxFailures == 1

\* --------------------------------------------------------------- constants
\* setTimeout(..., 3000): the delay in ticks of one second
TimerDelay == 3

\* JavaScript undefined / SQL NULL
Undefined == "undefined"
\* React state holding no record id / no error
NoId == 0
NoError == "none"
\* the logged-in user of the session and another user
CurrentUser == "u1"
OtherUser == "u2"
\* an optional number that is undefined (or NULL in the table)
UndefinedNumber == -1

\* ----------------------------------------------------------- input domains
\* the name field: typed and erased again, a blank, a name
NameInputs == {"", " ", "A"}
EvolvesIntoInputs == {"", "b"}
EvolvesFromInputs == {"C"}
EVOLUTION_STAGES == {"Basic", "Stage 1", "Stage 2"}
StageInputs == {"Basic"}
\* positions of the male/female slider (min 0, max 100)
MaleInputs == {0, 30, 100}

VARIABLES
    form,               \* react-hook-form values (getValues())
    savedPokemonId,     \* useState: id of the draft, NoId when undefined
    aiGeneratedImage,   \* useState: URL of the generated artwork, "" when none
    uploadedImage,      \* useState: the selected File, "" when null
    isSaving,           \* useState
    saveError,          \* useState: the banner text, NoError when null
    autoSaveStatus,     \* useState: 'saved' | 'saving' | 'error'
    lastAutoSave,       \* useState: TRUE once a Date was stored
    timers,             \* browser timers: handle -> seconds left
    autoSaveTimeoutRef, \* useRef: handle of the last timer, 0 when null
    mounted,            \* the component is mounted
    editMode,           \* prop editMode
    existingPokemon,    \* prop existingPokemon: its id, NoId when absent
    tasks,              \* the async handlers started in this session
    db,                 \* the pokemon table: id -> row
    isGeneratingImage,  \* useState
    storage,            \* the files in the pokemon-images bucket
    idle,               \* history: seconds since the last field change
    unsaved,            \* history: a field changed and no save read it yet
    firstPersistedId,   \* history: id of the first save the client saw succeed
    skipped,            \* history: autosave attempts that returned early
    edits,              \* history: number of field edits so far
    failures,           \* history: number of requests the backend failed
    detail,             \* PokemonDetail: its route parameter and useState values
    auth                \* AuthProvider: useState values, localStorage, the route

vars == <<form, savedPokemonId, aiGeneratedImage, uploadedImage, isSaving,
          saveError, autoSaveStatus, lastAutoSave, timers, autoSaveTimeoutRef,
          mounted, editMode, existingPokemon, tasks, db,
          isGeneratingImage, storage, idle, unsaved, firstPersistedId,
          skipped, edits, failures, detail, auth>>

\* the props of the component: never assigned
propVars == <<editMode, existingPokemon>>

\* the pages around the form: the detail page and the login state
pageVars == <<detail, auth>>

\* the state of the image step
imageVars == <<aiGeneratedImage, uploadedImage, isGeneratingImage, storage>>

\* ------------------------------------------------------------ JS helpers
\* JavaScript truthiness of an optional string
Truthy(s) == s # Undefined /\ s # ""

\* String.prototype.trim on the strings of the model
Trim(s) == IF s = " " THEN "" ELSE s

\* a || b on optional strings
OrElse(a, b) == IF Truthy(a) THEN a ELSE b

\* case folding used by ilike
Lower(s) ==
    CASE s = "A" -> "a"
      [] s = "B" -> "b"
      [] s = "C" -> "c"
      [] OTHER -> s

Ids(d) == 1..Len(d)

\* --------------------------------------------------------- the pokemon table
\* A Partial<Pokemon>: every field the model tracks, Undefined when absent.
\* Ids are never used again, so a row that was deleted keeps its place in the
\* table and is marked deleted: no query matches it any more
NoFields ==
    [name |-> Undefined, evolvesInto |-> Undefined, evolvesFrom |-> Undefined,
     evolutionStage |-> Undefined, originalDrawingUrl |-> Undefined,
     aiGeneratedImageUrl |-> Undefined,
     genderRatioMale |-> UndefinedNumber,
     genderRatioFemale |-> UndefinedNumber,
     userId |-> Undefined,
     deleted |-> FALSE]

\* the table as first set up, where the artwork column was NOT NULL too
NotNullViolationFirstSchema(pokemon) ==
    pokemon.name = Undefined \/ pokemon.aiGeneratedImageUrl = Undefined

\* the table rejects an insert without a name: name VARCHAR(100) NOT NULL
\* (error 23502, which createPokemon rethrows)
NotNullViolation(pokemon) == pokemon.name = Undefined

\* createPokemon: insert([{ name: pokemon.name, ... }]); an undefined property
\* is left out of the JSON body and the column becomes NULL
createPokemon(d, pokemon) ==
    Append(d, [name |-> pokemon.name,
               evolvesInto |-> pokemon.evolvesInto,
               evolvesFrom |-> pokemon.evolvesFrom,
               evolutionStage |-> pokemon.evolutionStage,
               originalDrawingUrl |-> pokemon.originalDrawingUrl,
               aiGeneratedImageUrl |-> pokemon.aiGeneratedImageUrl,
               genderRatioMale |-> pokemon.genderRatioMale,
               genderRatioFemale |-> pokemon.genderRatioFemale,
               userId |-> OrElse(pokemon.userId, Undefined),
               deleted |-> FALSE])

\* updatePokemon if it wrote every field it is given, as createPokemon does
updatePokemonEveryField(d, id, pokemon) ==
    [d EXCEPT ![id] =
        [name |-> pokemon.name,
         evolvesInto |-> pokemon.evolvesInto,
         evolvesFrom |-> pokemon.evolvesFrom,
         evolutionStage |-> pokemon.evolutionStage,
         originalDrawingUrl |-> pokemon.originalDrawingUrl,
         aiGeneratedImageUrl |-> pokemon.aiGeneratedImageUrl,
         genderRatioMale |-> pokemon.genderRatioMale,
         genderRatioFemale |-> pokemon.genderRatioFemale,
         userId |-> @.userId,
         deleted |-> @.deleted]]

\* updatePokemon: ...(pokemon.x && { x: pokemon.x }) writes only truthy fields;
\* the gender fields are written when they are not undefined
updatePokemon(d, id, pokemon) ==
    [d EXCEPT ![id] =
        [name |-> IF Truthy(pokemon.name) THEN pokemon.name ELSE @.name,
         evolvesInto |-> IF Truthy(pokemon.evolvesInto)
                         THEN pokemon.evolvesInto ELSE @.evolvesInto,
         evolvesFrom |-> IF Truthy(pokemon.evolvesFrom)
                         THEN pokemon.evolvesFrom ELSE @.evolvesFrom,
         evolutionStage |-> IF Truthy(pokemon.evolutionStage)
                            THEN pokemon.evolutionStage ELSE @.evolutionStage,
         originalDrawingUrl |-> IF Truthy(pokemon.originalDrawingUrl)
                                THEN pokemon.originalDrawingUrl
                                ELSE @.originalDrawingUrl,
         aiGeneratedImageUrl |-> IF Truthy(pokemon.aiGeneratedImageUrl)
                                 THEN pokemon.aiGeneratedImageUrl
                                 ELSE @.aiGeneratedImageUrl,
         genderRatioMale |-> IF pokemon.genderRatioMale # UndefinedNumber
                             THEN pokemon.genderRatioMale
                             ELSE @.genderRatioMale,
         genderRatioFemale |-> IF pokemon.genderRatioFemale # UndefinedNumber
                               THEN pokemon.genderRatioFemale
                               ELSE @.genderRatioFemale,
         userId |-> @.userId,
         deleted |-> @.deleted]]

\* deletePokemon: .delete().eq('id', id)
deletePokemon(d, id) == [d EXCEPT ![id].deleted = TRUE]

\* .eq('id', id).single() finds the row
RowExists(d, id) == id \in Ids(d) /\ ~d[id].deleted

\* getPokemonByName: .ilike('name', name).single(); PGRST116 (no row, or more
\* than one row) gives null
getPokemonByName(d, name) ==
    LET matches == {i \in Ids(d) : /\ ~d[i].deleted
                                   /\ d[i].name # Undefined
                                   /\ Lower(d[i].name) = Lower(name)}
    IN  IF Cardinality(matches) = 1 THEN CHOOSE i \in matches : TRUE ELSE NoId

\* ------------------------------------------------------------ the form page
\* the object each save path builds from the form values and the closure state
pokemonData(values, generated, existingUrl) ==
    [name |-> values.name,
     evolvesInto |-> values.evolvesInto,
     evolvesFrom |-> values.evolvesFrom,
     evolutionStage |-> values.evolutionStage,
     originalDrawingUrl |-> OrElse(values.originalDrawingUrl, existingUrl),
     aiGeneratedImageUrl |-> OrElse(generated, Undefined),
     genderRatioMale |-> values.genderRatioMale,
     genderRatioFemale |-> values.genderRatioFemale,
     userId |-> values.userId]

\* the gender effect if it never ran
GenderEffectOff(values) == values

\* useEffect on watch('genderRatioMale') || 0: runs after the first render
\* and after every render in which that value changed, and sets
\* genderRatioFemale to 100 minus it
GenderEffect(values) ==
    LET genderRatioMale == IF values.genderRatioMale = UndefinedNumber THEN 0
                           ELSE values.genderRatioMale
    IN  [values EXCEPT !.genderRatioFemale = 100 - genderRatioMale]

\* the name check of autoSave without the trim()
SkipAutoSaveNoTrim(name) == ~Truthy(name)

\* autoSave: if (!allFormData.name || allFormData.name.trim() === '') return
SkipAutoSave(name) == ~Truthy(name) \/ Trim(name) = ""

\* handleSubmit(onSubmit): register('name', { required }) rejects a missing or
\* empty value before onSubmit is called
NameRequiredOk(name) == Truthy(name)

\* no timer pending
NoTimers == [h \in {} |-> 0]

\* the handle setTimeout returns: one that no pending timer has
NewHandle(ts) ==
    CHOOSE h \in 1..(Cardinality(DOMAIN ts) + 1) :
        /\ h \notin DOMAIN ts
        /\ \A k \in 1..(h - 1) : k \in DOMAIN ts

\* clearTimeout(autoSaveTimeoutRef.current)
ClearTimeout(ts, ref) == [h \in DOMAIN ts \ {ref} |-> ts[h]]

\* the watch() subscription callback without its clearTimeout
WatchCallbackNoClear(ts, ref) ==
    LET h == NewHandle(ts)
    IN  [timers |-> [k \in DOMAIN ts \cup {h} |->
                        IF k = h THEN TimerDelay ELSE ts[k]],
         ref |-> h]

\* the watch() subscription callback: clear the pending timer, start a new one
WatchCallback(ts, ref) ==
    LET cleared == ClearTimeout(ts, ref)
        h == NewHandle(cleared)
    IN  [timers |-> [k \in DOMAIN cleared \cup {h} |->
                        IF k = h THEN TimerDelay ELSE cleared[k]],
         ref |-> h]

\* the effect cleanup if it only unsubscribed
EffectCleanupUnsubscribeOnly(ts, ref) == ts

\* cleanup of the auto-save effect, run when one of its dependencies
\* [savedPokemonId, uploadedImage, aiGeneratedImage] changes and on unmount
EffectCleanup(ts, ref) == ClearTimeout(ts, ref)

\* timers after a state update that changes an effect dependency
AfterDepChange(changed) ==
    IF mounted /\ changed THEN EffectCleanup(timers, autoSaveTimeoutRef)
    ELSE timers

\* the callbacks still in flight: tasks that have not reached the end
InFlight == {i \in 1..Len(tasks) : tasks[i].pc # "done"}

NewTask(kind, sid, data) ==
    [kind |-> kind, pc |-> "request",
     op |-> IF sid # NoId THEN "update" ELSE "create",
     target |-> sid, data |-> data, ok |-> FALSE, newId |-> NoId,
     dir |-> "into", link |-> NoId, lookups |-> 0, linkFailed |-> FALSE,
     imageUrl |-> << >>,
     fresh |-> Truthy(data.evolvesInto)
               /\ getPokemonByName(db, data.evolvesInto) = NoId
               /\ \A i \in Ids(db) : db[i].name # Trim(data.evolvesInto)]


\* existingPokemon?.originalDrawingUrl
ExistingDrawingUrl ==
    IF existingPokemon # NoId /\ existingPokemon \in Ids(db)
    THEN db[existingPokemon].originalDrawingUrl ELSE Undefined

\* existingPokemon?.aiGeneratedImageUrl
ExistingArtwork ==
    IF existingPokemon # NoId /\ existingPokemon \in Ids(db)
    THEN db[existingPokemon].aiGeneratedImageUrl ELSE Undefined

\* findOrCreatePokemonByName returns null without a request for a blank name
LinkNeeded(name) == Truthy(name) /\ Trim(name) # ""

\* where linkEvolutions goes next; "done" when nothing is left to link
LinkStart(data) ==
    IF LinkNeeded(data.evolvesInto) THEN [pc |-> "find", dir |-> "into"]
    ELSE IF LinkNeeded(data.evolvesFrom) THEN [pc |-> "find", dir |-> "from"]
    ELSE [pc |-> "done", dir |-> "from"]

\* after the "evolves into" half: the "evolves from" half, or the end
LinkNext(t) ==
    IF t.dir = "into" /\ LinkNeeded(t.data.evolvesFrom)
    THEN [pc |-> "find", dir |-> "from"]
    ELSE [pc |-> "done", dir |-> "from"]

\* the name linkEvolutions looks up in the current half
LinkName(t) == IF t.dir = "into" THEN t.data.evolvesInto ELSE t.data.evolvesFrom

\* the stage of the counterpart if it were the stage after the saved
\* record's, and written only when there is one
CounterpartStageIfKnown(evolutionStage) ==
    CASE evolutionStage = "Basic" -> "Stage 1"
      [] evolutionStage = "Stage 1" -> "Stage 2"
      [] OTHER -> Undefined

\* pokemonData.evolutionStage === 'Basic' ? 'Stage 1' : 'Stage 2'
CounterpartStage(evolutionStage) ==
    IF evolutionStage = "Basic" THEN "Stage 1" ELSE "Stage 2"

\* linkEvolutions if it passed the saved record's own data along with the
\* reverse link
LinkFieldsWithData(t) ==
    IF t.dir = "into"
    THEN [NoFields EXCEPT !.name = t.data.name,
                          !.evolvesInto = t.data.evolvesInto,
                          !.evolvesFrom = t.data.name,
                          !.evolutionStage =
                              CounterpartStage(t.data.evolutionStage)]
    ELSE [NoFields EXCEPT !.name = t.data.name,
                          !.evolvesFrom = t.data.evolvesFrom,
                          !.evolvesInto = t.data.name]

\* the fields linkEvolutions writes on the counterpart
LinkFields(t) ==
    IF t.dir = "into"
    THEN [NoFields EXCEPT !.evolvesFrom = t.data.name,
                          !.evolutionStage =
                              CounterpartStage(t.data.evolutionStage)]
    ELSE [NoFields EXCEPT !.evolvesInto = t.data.name]

\* ---------------------------------------------------------------- initial
\* the form values before any effect ran
FreshValues ==
    [name |-> Undefined, evolvesInto |-> Undefined, evolvesFrom |-> Undefined,
     evolutionStage |-> Undefined, originalDrawingUrl |-> "",
     genderRatioMale |-> UndefinedNumber, genderRatioFemale |-> UndefinedNumber,
     userId |-> Undefined]

StoredB == [NoFields EXCEPT !.name = "B", !.userId = OtherUser]
StoredA == [NoFields EXCEPT !.name = "A", !.evolutionStage = "Stage 1",
                            !.userId = CurrentUser,
                            !.aiGeneratedImageUrl = "old",
                            !.genderRatioMale = 30, !.genderRatioFemale = 70]

\* ---------------------------------------------------------- the other pages
\* the routes of App.tsx the model visits; every one but /login is wrapped in
\* ProtectedRoute
LoginRoute == "/login"
HomeRoute == "/"
Routes == {LoginRoute, HomeRoute, "/create"}

\* AuthProvider with a logged-in user: the state and what localStorage caches
LoggedIn(userId, route) ==
    [isAuthenticated |-> TRUE, user |-> userId, pokemaker_auth |-> "true",
     pokemaker_user |-> userId, route |-> route]

\* AuthProvider as it starts on an empty localStorage
LoggedOut ==
    [isAuthenticated |-> FALSE, user |-> Undefined,
     pokemaker_auth |-> Undefined, pokemaker_user |-> Undefined,
     route |-> LoginRoute]

\* PokemonDetail of the record in the route: the useState initial values;
\* open tells that the page is mounted, cancelled is history: the confirmation
\* dialog was cancelled at least once
DetailOpened(id) ==
    [id |-> id, pokemon |-> NoId, loading |-> TRUE, error |-> NoError,
     showDeleteConfirm |-> FALSE, open |-> TRUE, cancelled |-> FALSE]

\* no detail page is mounted
DetailClosed == [DetailOpened(NoId) EXCEPT !.loading = FALSE, !.open = FALSE]

\* the component state after the first render and its effects; the form is a
\* protected page, so a user is logged in
FirstRender ==
    /\ detail = DetailClosed
    /\ auth = LoggedIn(CurrentUser, "/create")
    /\ savedPokemonId = existingPokemon
    /\ aiGeneratedImage = OrElse(ExistingArtwork, "")
    /\ uploadedImage = ""
    /\ isSaving = FALSE
    /\ saveError = NoError
    /\ autoSaveStatus = "saved"
    /\ lastAutoSave = FALSE
    /\ timers = NoTimers
    /\ autoSaveTimeoutRef = 0
    /\ mounted = TRUE
    /\ tasks = << >>
    /\ isGeneratingImage = FALSE
    /\ storage = {}
    /\ idle = TimerDelay
    /\ unsaved = FALSE
    /\ firstPersistedId = NoId
    /\ skipped = 0
    /\ edits = 0
    /\ failures = 0

Init ==
    /\ \/ /\ editMode = FALSE
          /\ existingPokemon = NoId
          /\ db \in {<< >>, <<StoredB>>}
          /\ form = GenderEffect(FreshValues)
       \/ /\ editMode = TRUE
          /\ existingPokemon = 1
          /\ db = <<StoredA>>
          /\ form = GenderEffect(
                        [name |-> "A", evolvesInto |-> Undefined,
                         evolvesFrom |-> Undefined,
                         evolutionStage |-> "Stage 1",
                         originalDrawingUrl |-> Undefined,
                         genderRatioMale |-> 30, genderRatioFemale |-> 70,
                         userId |-> CurrentUser])
    /\ FirstRender


\* ---------------------------------------------------------------- actions
\* the user changes one registered field; the watch subscription runs, the
\* form renders and the gender effect runs
FieldChange(field, value) ==
    /\ mounted
    /\ edits < MaxEdits
    /\ form[field] # value
    /\ form' = GenderEffect([form EXCEPT ![field] = value])
    /\ LET w == WatchCallback(timers, autoSaveTimeoutRef)
       IN  timers' = w.timers /\ autoSaveTimeoutRef' = w.ref
    /\ idle' = 0
    /\ unsaved' = TRUE
    /\ edits' = edits + 1
    /\ UNCHANGED <<savedPokemonId, imageVars, isSaving, saveError, autoSaveStatus, lastAutoSave, mounted, propVars, pageVars, tasks, db, firstPersistedId, skipped, failures>>

Edit ==
    \/ \E v \in NameInputs : FieldChange("name", v)
    \/ \E v \in EvolvesIntoInputs : FieldChange("evolvesInto", v)
    \/ \E v \in EvolvesFromInputs : FieldChange("evolvesFrom", v)
    \/ \E v \in StageInputs : FieldChange("evolutionStage", v)

\* one second passes; a timer that is due fires before the next second
Tick ==
    /\ \A h \in DOMAIN timers : timers[h] > 0
    /\ DOMAIN timers # {} \/ idle < TimerDelay
    /\ timers' = [h \in DOMAIN timers |-> timers[h] - 1]
    /\ idle' = IF idle < TimerDelay THEN idle + 1 ELSE idle
    /\ UNCHANGED <<form, savedPokemonId, imageVars, isSaving, saveError, autoSaveStatus, lastAutoSave, autoSaveTimeoutRef, mounted, propVars, pageVars, tasks, db, unsaved, firstPersistedId, skipped, edits, failures>>

\* the timeout callback: autoSave() up to its first await
AutoSaveStart ==
    \E h \in DOMAIN timers :
        /\ timers[h] = 0
        /\ timers' = [k \in DOMAIN timers \ {h} |-> timers[k]]
        /\ IF SkipAutoSave(form.name)
           THEN /\ autoSaveStatus' = IF mounted THEN "saved" ELSE autoSaveStatus
                /\ skipped' = skipped + 1
                /\ UNCHANGED <<tasks, unsaved>>
           ELSE /\ Len(tasks) < MaxTasks
                /\ autoSaveStatus' = IF mounted THEN "saving" ELSE autoSaveStatus
                /\ tasks' = Append(tasks,
                       NewTask("auto", savedPokemonId,
                               pokemonData(form, aiGeneratedImage,
                                           ExistingDrawingUrl)))
                /\ unsaved' = FALSE
                /\ UNCHANGED skipped
        /\ UNCHANGED <<form, savedPokemonId, imageVars, isSaving, saveError, lastAutoSave, autoSaveTimeoutRef, mounted, propVars, pageVars, db, idle, firstPersistedId, edits, failures>>

\* click on Save Draft: handleSaveDraft() up to its first await
SaveDraftStart ==
    /\ mounted
    /\ ~isSaving
    /\ Len(tasks) < MaxTasks
    /\ isSaving' = TRUE
    /\ saveError' = NoError
    /\ tasks' = Append(tasks,
           NewTask("draft", savedPokemonId,
                   pokemonData(form, aiGeneratedImage, ExistingDrawingUrl)))
    /\ unsaved' = FALSE
    /\ UNCHANGED <<form, savedPokemonId, imageVars, autoSaveStatus, lastAutoSave, timers, autoSaveTimeoutRef, mounted, propVars, pageVars, db, idle, firstPersistedId, skipped, edits, failures>>

\* the record id onSubmit updates, NoId when it creates
SubmitTarget ==
    IF editMode /\ existingPokemon # NoId THEN existingPokemon
    ELSE savedPokemonId

\* submit of the form: handleSubmit validates, onSubmit() up to its first await
SubmitStart ==
    /\ mounted
    /\ ~isSaving
    /\ NameRequiredOk(form.name)
    /\ Len(tasks) < MaxTasks
    /\ isSaving' = TRUE
    /\ saveError' = NoError
    /\ tasks' = Append(tasks,
           NewTask("submit", SubmitTarget,
                   pokemonData(form, aiGeneratedImage, ExistingDrawingUrl)))
    /\ unsaved' = FALSE
    /\ UNCHANGED <<form, savedPokemonId, imageVars, autoSaveStatus, lastAutoSave, timers, autoSaveTimeoutRef, mounted, propVars, pageVars, db, idle, firstPersistedId, skipped, edits, failures>>

\* the backend serves the create or update request of a save, or rejects it
BackendWrite(i) ==
    /\ tasks[i].pc = "request"
    /\ \/ /\ tasks[i].op = "create"
          /\ ~NotNullViolation(tasks[i].data)
          /\ db' = createPokemon(db, tasks[i].data)
          /\ tasks' = [tasks EXCEPT ![i].pc = "response", ![i].ok = TRUE,
                                    ![i].newId = Len(db) + 1]
          /\ UNCHANGED failures
       \/ /\ tasks[i].op = "create"
          /\ NotNullViolation(tasks[i].data)
          /\ db' = db
          /\ tasks' = [tasks EXCEPT ![i].pc = "response", ![i].ok = FALSE]
          /\ UNCHANGED failures
       \/ /\ tasks[i].op = "update"
          /\ RowExists(db, tasks[i].target)
          /\ db' = updatePokemon(db, tasks[i].target, tasks[i].data)
          /\ tasks' = [tasks EXCEPT ![i].pc = "response", ![i].ok = TRUE,
                                    ![i].newId = tasks[i].target]
          /\ UNCHANGED failures
       \/ /\ failures < MaxFailures
          /\ failures' = failures + 1
          /\ db' = db
          /\ tasks' = [tasks EXCEPT ![i].pc = "response", ![i].ok = FALSE]
    /\ UNCHANGED <<form, savedPokemonId, imageVars, isSaving, saveError,
                   autoSaveStatus, lastAutoSave, timers, autoSaveTimeoutRef,
                   mounted, propVars, pageVars, idle, unsaved, firstPersistedId, skipped,
                   edits>>

\* the catch block of autoSave if it set the banner as the other catches do
AutoSaveCatchWithBanner(banner) ==
    [autoSaveStatus |-> "error", saveError |-> "Failed to auto-save"]

\* the catch block of autoSave: the status becomes 'error', the banner is kept
AutoSaveCatch(banner) == [autoSaveStatus |-> "error", saveError |-> banner]

\* the catch blocks of onSubmit and handleSaveDraft if they only logged
SaveCatchLogOnly(kind) == NoError

\* the catch blocks of onSubmit and handleSaveDraft set the banner
SaveCatch(kind) ==
    IF kind = "submit" THEN "Failed to save" ELSE "Failed to save draft"

\* the end of a handler, after linkEvolutions: onSubmit navigates to the
\* detail page, which unmounts the form; finally { setIsSaving(false) }
EndOfSave(kind, ok, ending, ts) ==
    [isSaving |-> IF mounted /\ ending /\ kind # "auto" THEN FALSE ELSE isSaving,
     mounted |-> mounted /\ ~(ending /\ kind = "submit" /\ ok),
     timers |-> IF mounted /\ ending /\ kind = "submit" /\ ok
                THEN EffectCleanup(ts, autoSaveTimeoutRef) ELSE ts]

\* the response of the create or update arrives: the handler continues after
\* its await, up to the first request of linkEvolutions or to its end
Resume(i) ==
    LET t == tasks[i]
        nxt == IF t.ok /\ t.kind # "auto" THEN LinkStart(t.data)
               ELSE [pc |-> "done", dir |-> "from"]
        newSid == IF mounted /\ t.ok /\ t.op = "create"
                     /\ t.kind \in {"auto", "draft"}
                  THEN t.newId ELSE savedPokemonId
        end == EndOfSave(t.kind, t.ok, nxt.pc = "done",
                         AfterDepChange(newSid # savedPokemonId))
        failed == AutoSaveCatch(saveError)
    IN  /\ t.pc = "response"
        /\ tasks' = [tasks EXCEPT ![i].pc = nxt.pc, ![i].dir = nxt.dir]
        /\ savedPokemonId' = newSid
        /\ autoSaveStatus' =
               IF mounted /\ t.kind = "auto"
               THEN (IF t.ok THEN "saved" ELSE failed.autoSaveStatus)
               ELSE autoSaveStatus
        /\ lastAutoSave' = (lastAutoSave \/ (mounted /\ t.kind = "auto" /\ t.ok))
        /\ saveError' =
               IF ~mounted THEN saveError
               ELSE IF t.kind = "auto"
                    THEN (IF t.ok THEN NoError ELSE failed.saveError)
                    ELSE (IF t.ok THEN saveError ELSE SaveCatch(t.kind))
        /\ isSaving' = end.isSaving
        /\ mounted' = end.mounted
        /\ timers' = end.timers
        /\ firstPersistedId' =
               IF firstPersistedId = NoId /\ t.ok THEN t.newId
               ELSE firstPersistedId
        /\ UNCHANGED <<form, imageVars, autoSaveTimeoutRef, propVars, pageVars, db, idle, unsaved, skipped, edits, failures>>


\* linkEvolutions -> findOrCreatePokemonByName -> getPokemonByName: the
\* lookup; a lookup that fails is caught and gives null, like no match
LinkFind(i) ==
    LET t == tasks[i] IN
    /\ t.pc = "find"
    /\ \E ok \in BOOLEAN :
          LET found == IF ok THEN getPokemonByName(db, LinkName(t)) ELSE NoId
          IN  /\ ok \/ failures < MaxFailures
              /\ failures' = IF ok THEN failures ELSE failures + 1
              /\ tasks' = [tasks EXCEPT ![i].lookups = t.lookups + 1,
                                        ![i].linkFailed = t.linkFailed \/ ~ok,
                                        ![i].link = found,
                                        ![i].pc = IF found # NoId THEN "update"
                                                  ELSE "create"]
    /\ UNCHANGED <<form, savedPokemonId, imageVars, isSaving, saveError,
                   autoSaveStatus, lastAutoSave, timers, autoSaveTimeoutRef,
                   mounted, propVars, pageVars, db, idle, unsaved, firstPersistedId,
                   skipped, edits>>

\* findOrCreatePokemonByName: createPokemon({ name: name.trim(), ... }) of the
\* stub; when it throws, null is returned and the update is skipped
LinkCreate(i) ==
    LET t == tasks[i] IN
    /\ t.pc = "create"
    /\ \/ /\ db' = createPokemon(db, [NoFields EXCEPT
                                         !.name = Trim(LinkName(t))])
          /\ tasks' = [tasks EXCEPT ![i].link = Len(db) + 1,
                                    ![i].pc = "update"]
          /\ UNCHANGED <<isSaving, mounted, timers, failures>>
       \/ LET nxt == LinkNext(t)
              end == EndOfSave(t.kind, TRUE, nxt.pc = "done", timers)
          IN  /\ failures < MaxFailures
              /\ failures' = failures + 1
              /\ db' = db
              /\ tasks' = [tasks EXCEPT ![i].linkFailed = TRUE,
                                        ![i].link = NoId,
                                        ![i].pc = nxt.pc, ![i].dir = nxt.dir]
              /\ isSaving' = end.isSaving
              /\ mounted' = end.mounted
              /\ timers' = end.timers
    /\ UNCHANGED <<form, savedPokemonId, imageVars, saveError, autoSaveStatus,
                   lastAutoSave, autoSaveTimeoutRef, propVars, pageVars, idle, unsaved,
                   firstPersistedId, skipped, edits>>

\* the catch block of linkEvolutions if it reported the error as the catch
\* blocks of the save handlers do
LinkCatchWithBanner(banner) == "Failed to link evolutions"

\* the catch block of linkEvolutions: the error is logged and not rethrown,
\* the banner is kept
LinkCatch(banner) == banner

\* linkEvolutions: updatePokemon of the counterpart; when it throws, the catch
\* of linkEvolutions ends the linking
LinkUpdate(i) ==
    LET t == tasks[i] IN
    /\ t.pc = "update"
    /\ \E ok \in BOOLEAN :
          LET nxt == IF ok THEN LinkNext(t) ELSE [pc |-> "done", dir |-> "from"]
              end == EndOfSave(t.kind, TRUE, nxt.pc = "done", timers)
          IN  /\ ok \/ failures < MaxFailures
              /\ failures' = IF ok THEN failures ELSE failures + 1
              /\ db' = IF ok THEN updatePokemon(db, t.link, LinkFields(t))
                       ELSE db
              /\ tasks' = [tasks EXCEPT ![i].linkFailed = t.linkFailed \/ ~ok,
                                        ![i].link = NoId,
                                        ![i].pc = nxt.pc, ![i].dir = nxt.dir]
              /\ saveError' = IF ok \/ ~mounted THEN saveError
                              ELSE LinkCatch(saveError)
              /\ isSaving' = end.isSaving
              /\ mounted' = end.mounted
              /\ timers' = end.timers
    /\ UNCHANGED <<form, savedPokemonId, imageVars, autoSaveStatus,
                   lastAutoSave, autoSaveTimeoutRef, propVars, pageVars, idle, unsaved,
                   firstPersistedId, skipped, edits>>

\* a handler of the image step: handleImageUpload or handleGenerateImage
ImageTask(kind, pc) ==
    [kind |-> kind, pc |-> pc, op |-> "none", target |-> NoId,
     data |-> NoFields, ok |-> FALSE, newId |-> NoId, dir |-> "from",
     link |-> NoId, lookups |-> 0, linkFailed |-> FALSE,
     imageUrl |-> << >>, fresh |-> FALSE]

\* the user selects a drawing: handleImageUpload() up to await uploadImage;
\* setUploadedImage(file) changes a dependency of the auto-save effect
SelectFile ==
    /\ mounted
    /\ Len(tasks) < MaxTasks
    /\ uploadedImage' = "file"
    /\ timers' = AfterDepChange(TRUE)
    /\ tasks' = Append(tasks, ImageTask("upload", "storage"))
    /\ UNCHANGED <<form, savedPokemonId, aiGeneratedImage, isGeneratingImage,
                   storage, isSaving, saveError, autoSaveStatus, lastAutoSave,
                   autoSaveTimeoutRef, mounted, propVars, pageVars, db, idle, unsaved,
                   firstPersistedId, skipped, edits, failures>>

\* uploadImage: storage.upload(filePath, file) adds the file to the bucket
uploadImage(bucket, file) == bucket \cup {file}

\* handleImageUpload if it kept the URL for the final submit
UploadedUrlDeferred(values, url) == values

\* handleImageUpload: setValue('originalDrawingUrl', permanentUrl)
UploadedUrl(values, url) == [values EXCEPT !.originalDrawingUrl = url]

\* uploadImage of the drawing returns: setValue('originalDrawingUrl', url),
\* which the watch subscription sees, or the catch sets the banner
UploadDone(i) ==
    /\ tasks[i].kind = "upload"
    /\ tasks[i].pc = "storage"
    /\ \E ok \in BOOLEAN :
          /\ ok \/ failures < MaxFailures
          /\ failures' = IF ok THEN failures ELSE failures + 1
          /\ tasks' = [tasks EXCEPT ![i].pc = "done", ![i].ok = ok]
          /\ storage' = IF ok THEN uploadImage(storage, "drawing") ELSE storage
          /\ form' = IF ok THEN UploadedUrl(form, "drawing") ELSE form
          /\ IF ok /\ mounted
             THEN LET w == WatchCallback(timers, autoSaveTimeoutRef)
                  IN  /\ timers' = w.timers
                      /\ autoSaveTimeoutRef' = w.ref
                      /\ idle' = 0
                      /\ unsaved' = TRUE
             ELSE UNCHANGED <<timers, autoSaveTimeoutRef, idle, unsaved>>
          /\ saveError' = IF ~ok /\ mounted THEN "Failed to upload image"
                          ELSE saveError
    /\ UNCHANGED <<savedPokemonId, aiGeneratedImage, uploadedImage,
                   isGeneratingImage, isSaving, autoSaveStatus,
                   lastAutoSave, mounted, propVars, pageVars, db, firstPersistedId,
                   skipped, edits>>

\* click on Generate: handleGenerateImage() up to the await of
\* generatePokemonImageWithVision
GenerateStart ==
    /\ mounted
    /\ ~isGeneratingImage
    /\ uploadedImage # ""
    /\ Len(tasks) < MaxTasks
    /\ isGeneratingImage' = TRUE
    /\ saveError' = NoError
    /\ tasks' = Append(tasks, ImageTask("generate", "vision"))
    /\ UNCHANGED <<form, savedPokemonId, aiGeneratedImage, uploadedImage,
                   storage, isSaving, autoSaveStatus, lastAutoSave, timers,
                   autoSaveTimeoutRef, mounted, propVars, pageVars, db, idle, unsaved,
                   firstPersistedId, skipped, edits, failures>>

\* the imageUrl of the generate-image endpoint as the pieces between its
\* commas: the revision on gpt-image-1 answers
\* `data:image/png;base64,${base64Image}`, the revision on dall-e-3 answers
\* the plain URL of imageResponse.data[0].url
DataUrl == <<"data:image/png;base64", "iVBORw0KGgo">>
PlainUrl == <<"https://images.example/generated.png">>
ImageUrls == {DataUrl, PlainUrl}

\* generatePokemonImageWithVision: imageResponse.imageUrl.split(',')[1]
generatedBase64Data(imageUrl) ==
    IF Len(imageUrl) >= 2 THEN imageUrl[2] ELSE Undefined

\* the catch block of handleGenerateImage if it reset the image step
GenerateCatchWithReset(generated) ==
    [aiGeneratedImage |-> "", saveError |-> "Failed to generate image"]

\* the catch block of handleGenerateImage: only the banner is set
GenerateCatch(generated) ==
    [aiGeneratedImage |-> generated, saveError |-> "Failed to generate image"]

\* generatePokemonImageWithVision returns the image data or throws (a failed
\* request, or 'Invalid data URL format' when the imageUrl has no base64
\* part), then uploadImage of the generated file returns its URL or throws:
\* setAiGeneratedImage(url) changes a dependency of the auto-save effect; the
\* catch sets the banner; finally { setIsGeneratingImage(false) }
GenerateStep(i) ==
    LET t == tasks[i] IN
    /\ t.kind = "generate"
    /\ t.pc \in {"vision", "storage"}
    /\ \E ok \in BOOLEAN, imageUrl \in ImageUrls :
          LET usable == generatedBase64Data(imageUrl) # Undefined
              good == ok /\ usable
              stored == good /\ t.pc = "storage"
              ending == stored \/ ~good
              failed == GenerateCatch(aiGeneratedImage)
          IN  /\ t.pc = "storage" => imageUrl = t.imageUrl
              /\ ok \/ failures < MaxFailures
              /\ failures' = IF ok THEN failures ELSE failures + 1
              /\ tasks' = [tasks EXCEPT ![i].pc = IF ending THEN "done"
                                                  ELSE "storage",
                                        ![i].imageUrl = IF ok THEN imageUrl
                                                        ELSE t.imageUrl,
                                        ![i].ok = stored]
              /\ storage' = IF stored THEN uploadImage(storage, "artwork")
                            ELSE storage
              /\ aiGeneratedImage' =
                     IF ~mounted THEN aiGeneratedImage
                     ELSE IF stored THEN "artwork"
                     ELSE IF ~good THEN failed.aiGeneratedImage
                     ELSE aiGeneratedImage
              /\ timers' = AfterDepChange(aiGeneratedImage' # aiGeneratedImage)
              /\ saveError' = IF ~good /\ mounted THEN failed.saveError
                              ELSE saveError
              /\ isGeneratingImage' = IF ending /\ mounted THEN FALSE
                                      ELSE isGeneratingImage
    /\ UNCHANGED <<form, savedPokemonId, uploadedImage, isSaving,
                   autoSaveStatus, lastAutoSave, autoSaveTimeoutRef, mounted,
                   propVars, pageVars, db, idle, unsaved, firstPersistedId, skipped,
                   edits>>

\* the user leaves the page: the form unmounts and the effect cleanup runs
NavigateAway ==
    /\ mounted
    /\ mounted' = FALSE
    /\ timers' = EffectCleanup(timers, autoSaveTimeoutRef)
    /\ UNCHANGED <<form, savedPokemonId, imageVars, isSaving, saveError, autoSaveStatus, lastAutoSave, autoSaveTimeoutRef, propVars, pageVars, tasks, db, idle, unsaved, firstPersistedId, skipped, edits, failures>>

\* the save and evolution-linking side of a session
Next ==
    \/ Edit
    \/ Tick
    \/ AutoSaveStart
    \/ SaveDraftStart
    \/ SubmitStart
    \/ \E i \in 1..Len(tasks) : BackendWrite(i)
    \/ \E i \in 1..Len(tasks) : Resume(i)
    \/ \E i \in 1..Len(tasks) : LinkFind(i)
    \/ \E i \in 1..Len(tasks) : LinkCreate(i)
    \/ \E i \in 1..Len(tasks) : LinkUpdate(i)
    \/ NavigateAway

Spec == Init /\ [][Next]_vars

\* the save and image side of a session: every source of a change of the
\* auto-save effect's dependencies, with the name as the edited field
EditName == \E v \in NameInputs : FieldChange("name", v)

ImageInit == Init /\ db # <<StoredB>>

ImageNext ==
    \/ EditName
    \/ Tick
    \/ AutoSaveStart
    \/ SaveDraftStart
    \/ SubmitStart
    \/ \E i \in 1..Len(tasks) : BackendWrite(i)
    \/ \E i \in 1..Len(tasks) : Resume(i)
    \/ SelectFile
    \/ \E i \in 1..Len(tasks) : UploadDone(i)
    \/ GenerateStart
    \/ \E i \in 1..Len(tasks) : GenerateStep(i)
    \/ NavigateAway

ImageSpec == ImageInit /\ [][ImageNext]_vars

\* the save and breeding side of a session: the slider and the name are the
\* edited fields
SetGenderRatioMale == \E v \in MaleInputs : FieldChange("genderRatioMale", v)

GenderNext ==
    \/ SetGenderRatioMale
    \/ EditName
    \/ Tick
    \/ AutoSaveStart
    \/ SaveDraftStart
    \/ SubmitStart
    \/ \E i \in 1..Len(tasks) : BackendWrite(i)
    \/ \E i \in 1..Len(tasks) : Resume(i)
    \/ NavigateAway

GenderSpec == ImageInit /\ [][GenderNext]_vars

\* ------------------------------------------------ linking of a stored record
\* the form values EditPokemon passes for a stored row
EditValues(row) ==
    GenderEffect([name |-> row.name, evolvesInto |-> row.evolvesInto,
                  evolvesFrom |-> row.evolvesFrom,
                  evolutionStage |-> row.evolutionStage,
                  originalDrawingUrl |-> row.originalDrawingUrl,
                  genderRatioMale |-> row.genderRatioMale,
                  genderRatioFemale |-> row.genderRatioFemale,
                  userId |-> row.userId])

\* the stage column of a stored row: one of EVOLUTION_STAGES, or NULL
StoredStages == EVOLUTION_STAGES \cup {Undefined}

\* the edit form of a stored record A with any stage and any evolution names,
\* in a table where the records it names exist with a stage or do not exist
LinkInit ==
    /\ editMode = TRUE
    /\ existingPokemon = 1
    /\ \E stage \in StoredStages, into \in {Undefined, "b"},
          from \in {Undefined, "C"} :
          \E others \in {<< >>,
                         <<[StoredB EXCEPT !.evolutionStage = "Basic"],
                           [NoFields EXCEPT !.name = "C",
                                            !.evolutionStage = "Basic"]>>} :
             db = <<[StoredA EXCEPT !.evolutionStage = stage,
                                    !.evolvesInto = into,
                                    !.evolvesFrom = from]>> \o others
    /\ form = EditValues(db[1])
    /\ FirstRender

\* Save Draft and final submit of that form, with their linking
LinkingNext ==
    \/ SaveDraftStart
    \/ SubmitStart
    \/ \E i \in 1..Len(tasks) : BackendWrite(i)
    \/ \E i \in 1..Len(tasks) : Resume(i)
    \/ \E i \in 1..Len(tasks) : LinkFind(i)
    \/ \E i \in 1..Len(tasks) : LinkCreate(i)
    \/ \E i \in 1..Len(tasks) : LinkUpdate(i)

LinkSpec == LinkInit /\ [][LinkingNext]_vars

\* ------------------------------------------- the data layer called directly
\* a record nobody owns, as createPokemon stores it without a userId
StoredC == [NoFields EXCEPT !.name = "C"]

\* what a caller may pass as userId
UserArgs == {CurrentUser, OtherUser, Undefined}

\* the fields a caller passes to updatePokemon
UpdateArgs == {[NoFields EXCEPT !.name = "Z"]}

\* the ownership check if it let every caller through
OwnershipDeniedNever(row, userId) == FALSE

\* existingPokemon.userId && existingPokemon.userId !== userId
OwnershipDenied(row, userId) == Truthy(row.userId) /\ row.userId # userId

\* new Error('You do not have permission to ... this Pokemon.')
PermissionError(kind) ==
    IF kind = "update" THEN "You do not have permission to edit"
    ELSE "You do not have permission to delete"

\* a call of updatePokemon(id, pokemon, userId) or deletePokemon(id, userId):
\* with a userId it starts at the ownership check; returned tells that the
\* caller has continued after its await
Call(kind, id, fields, userId) ==
    [kind |-> kind, pc |-> IF Truthy(userId) THEN "check" ELSE "write",
     target |-> id, data |-> fields, userId |-> userId, ok |-> FALSE,
     thrown |-> NoError, returned |-> FALSE]

CallStart ==
    /\ Len(tasks) < MaxTasks
    /\ \E id \in Ids(db), userId \in UserArgs :
          \/ \E fields \in UpdateArgs :
                tasks' = Append(tasks, Call("update", id, fields, userId))
          \/ tasks' = Append(tasks, Call("delete", id, NoFields, userId))
    /\ UNCHANGED <<form, savedPokemonId, imageVars, isSaving, saveError,
                   autoSaveStatus, lastAutoSave, timers, autoSaveTimeoutRef,
                   mounted, propVars, pageVars, db, idle, unsaved, firstPersistedId,
                   skipped, edits, failures>>

\* if (userId) { existingPokemon = await getPokemonById(id); ... throw }
OwnershipCheck(i) ==
    LET t == tasks[i] IN
    /\ t.pc = "check"
    /\ \E ok \in BOOLEAN :
          LET found == ok /\ RowExists(db, t.target) IN
          /\ ok \/ failures < MaxFailures
          /\ failures' = IF ok THEN failures ELSE failures + 1
          /\ tasks' =
                IF ~found
                THEN [tasks EXCEPT ![i].pc = "done",
                                   ![i].thrown = "Error fetching"]
                ELSE IF OwnershipDenied(db[t.target], t.userId)
                THEN [tasks EXCEPT ![i].pc = "done",
                                   ![i].thrown = PermissionError(t.kind)]
                ELSE [tasks EXCEPT ![i].pc = "write"]
    /\ UNCHANGED <<form, savedPokemonId, imageVars, isSaving, saveError,
                   autoSaveStatus, lastAutoSave, timers, autoSaveTimeoutRef,
                   mounted, propVars, pageVars, db, idle, unsaved, firstPersistedId,
                   skipped, edits>>

\* the update or delete request itself: an update of a row that is gone
\* finds no row and throws, a delete of a row that is gone succeeds
GuardedWrite(i) ==
    LET t == tasks[i] IN
    /\ t.pc = "write"
    /\ \E ok \in BOOLEAN :
          LET done == ok /\ (t.kind = "delete" \/ RowExists(db, t.target)) IN
          /\ ok \/ failures < MaxFailures
          /\ failures' = IF ok THEN failures ELSE failures + 1
          /\ db' = IF ~done THEN db
                   ELSE IF t.kind = "update"
                        THEN updatePokemon(db, t.target, t.data)
                        ELSE deletePokemon(db, t.target)
          /\ tasks' = [tasks EXCEPT ![i].pc = "done", ![i].ok = done,
                                    ![i].thrown = IF done THEN NoError
                                                  ELSE "Failed"]
    /\ UNCHANGED <<form, savedPokemonId, imageVars, isSaving, saveError,
                   autoSaveStatus, lastAutoSave, timers, autoSaveTimeoutRef,
                   mounted, propVars, pageVars, idle, unsaved, firstPersistedId,
                   skipped, edits>>

CallInit ==
    /\ editMode = FALSE
    /\ existingPokemon = NoId
    /\ db = <<StoredA, StoredB, StoredC>>
    /\ form = GenderEffect(FreshValues)
    /\ FirstRender

CallNext ==
    \/ CallStart
    \/ \E i \in 1..Len(tasks) : OwnershipCheck(i)
    \/ \E i \in 1..Len(tasks) : GuardedWrite(i)

CallSpec == CallInit /\ [][CallNext]_vars

\* ------------------------------------------------------- the detail page
DetailRoute == "/pokemon/:id"
GalleryRoute == "/gallery"

\* the state of the form component
formVars == <<form, savedPokemonId, imageVars, isSaving, saveError,
              autoSaveStatus, lastAutoSave, timers, autoSaveTimeoutRef,
              mounted, propVars, idle, unsaved, firstPersistedId, skipped,
              edits>>

\* no form is mounted and nothing has happened yet
NoForm ==
    /\ editMode = FALSE
    /\ existingPokemon = NoId
    /\ form = FreshValues
    /\ savedPokemonId = NoId
    /\ aiGeneratedImage = ""
    /\ uploadedImage = ""
    /\ isSaving = FALSE
    /\ saveError = NoError
    /\ autoSaveStatus = "saved"
    /\ lastAutoSave = FALSE
    /\ timers = NoTimers
    /\ autoSaveTimeoutRef = 0
    /\ mounted = FALSE
    /\ tasks = << >>
    /\ isGeneratingImage = FALSE
    /\ storage = {}
    /\ idle = TimerDelay
    /\ unsaved = FALSE
    /\ firstPersistedId = NoId
    /\ skipped = 0
    /\ edits = 0
    /\ failures = 0

\* useEffect -> loadPokemon(id): getPokemonById answers or throws
LoadPokemon ==
    /\ detail.open
    /\ detail.loading
    /\ \E ok \in BOOLEAN :
          LET found == ok /\ RowExists(db, detail.id) IN
          /\ ok \/ failures < MaxFailures
          /\ failures' = IF ok THEN failures ELSE failures + 1
          /\ detail' = IF found
                       THEN [detail EXCEPT !.pokemon = detail.id,
                                           !.loading = FALSE]
                       ELSE [detail EXCEPT !.error = "Failed to load",
                                           !.loading = FALSE]
    /\ UNCHANGED <<formVars, tasks, db, auth>>

\* the page shows the record: neither the loading nor the error screen
RecordShown ==
    detail.open /\ ~detail.loading /\ detail.error = NoError
        /\ detail.pokemon # NoId

\* {user && pokemon.userId === user.id && (...)}: the Edit and Delete buttons.
\* The owner of a row never changes, so the row's owner is the loaded one.
ActionButtonsShown ==
    RecordShown /\ Truthy(auth.user)
        /\ db[detail.pokemon].userId = auth.user

\* the Delete button: onClick={() => setShowDeleteConfirm(true)}
ClickDelete ==
    /\ ActionButtonsShown
    /\ ~detail.showDeleteConfirm
    /\ detail' = [detail EXCEPT !.showDeleteConfirm = TRUE]
    /\ UNCHANGED <<formVars, tasks, db, failures, auth>>

\* the confirmation dialog if it were always rendered
DeleteModalShownAlways(d) == TRUE

\* {showDeleteConfirm && (...)}: the confirmation dialog and its two buttons
DeleteModalShown(d) == d.showDeleteConfirm

\* Cancel in the dialog: onClick={() => setShowDeleteConfirm(false)}
CancelDelete ==
    /\ RecordShown
    /\ DeleteModalShown(detail)
    /\ detail' = [detail EXCEPT !.showDeleteConfirm = FALSE,
                                !.cancelled = TRUE]
    /\ UNCHANGED <<formVars, tasks, db, failures, auth>>

\* Delete in the dialog: handleDelete() up to await deletePokemon(id); the
\* dialog stays open, so the button can be clicked again
ConfirmDelete ==
    /\ RecordShown
    /\ DeleteModalShown(detail)
    /\ detail.id # NoId
    /\ Len(tasks) < MaxTasks
    /\ tasks' = Append(tasks, Call("delete", detail.id, NoFields, Undefined))
    /\ UNCHANGED <<formVars, db, failures, detail, auth>>

\* handleDelete after its await: navigate('/gallery'), or the alert of the
\* catch block
DeleteReturn(i) ==
    LET t == tasks[i] IN
    /\ t.pc = "done"
    /\ ~t.returned
    /\ tasks' = [tasks EXCEPT ![i].returned = TRUE]
    /\ detail' = IF t.ok THEN [detail EXCEPT !.open = FALSE] ELSE detail
    /\ auth' = IF t.ok THEN [auth EXCEPT !.route = GalleryRoute] ELSE auth
    /\ UNCHANGED <<formVars, db, failures>>

\* the Back to Gallery link or the browser's back button
BackToGallery ==
    /\ detail.open
    /\ detail' = [detail EXCEPT !.open = FALSE]
    /\ auth' = [auth EXCEPT !.route = GalleryRoute]
    /\ UNCHANGED <<formVars, tasks, db, failures>>

\* a logged-in user opens the detail page of one of the stored records
DetailInit ==
    /\ NoForm
    /\ db = <<StoredA, StoredB, StoredC>>
    /\ \E id \in Ids(db) : detail = DetailOpened(id)
    /\ \E userId \in {CurrentUser, OtherUser} :
          auth = LoggedIn(userId, DetailRoute)

DetailNext ==
    \/ LoadPokemon
    \/ ClickDelete
    \/ CancelDelete
    \/ ConfirmDelete
    \/ \E i \in 1..Len(tasks) : GuardedWrite(i)
    \/ \E i \in 1..Len(tasks) : DeleteReturn(i)
    \/ BackToGallery

DetailSpec == DetailInit /\ [][DetailNext]_vars

\* ---------------------------------------------------------------- the login
\* the hash bcrypt stored for a password (one salt and cost)
password_hash(password) == <<"$2a$10$", password>>

\* the users table: username -> row
UsersTable ==
    [username \in {"aza", "kid"} |->
        IF username = "aza"
        THEN [id |-> CurrentUser, password_hash |-> password_hash("pikachu")]
        ELSE [id |-> OtherUser, password_hash |-> password_hash("eevee")]]

\* what is typed into the login form
UsernameInputs == {"aza", "nobody"}
PasswordInputs == {"pikachu", "eevee"}

\* the password check if it accepted every password
compareSyncAny(password, hash) == TRUE

\* bcrypt.compareSync(password, userData.password_hash)
compareSync(password, hash) == hash = password_hash(password)

\* ProtectedRoute: every route but /login renders <Navigate to="/login"
\* replace /> instead of its page while isAuthenticated is false
ProtectedRoute(route, isAuthenticated) ==
    IF route # LoginRoute /\ ~isAuthenticated THEN LoginRoute ELSE route

\* a call of login(username, password)
LoginTask(username, password) ==
    [kind |-> "login", pc |-> "query", username |-> username,
     password |-> password, ok |-> FALSE]

\* Login.handleSubmit: login() is called and not awaited, so success is the
\* promise, which is truthy: navigate('/') runs at once, whatever the answer
\* will be, and ProtectedRoute decides what is rendered
LoginSubmit ==
    /\ auth.route = LoginRoute
    /\ Len(tasks) < MaxTasks
    /\ \E username \in UsernameInputs, password \in PasswordInputs :
          tasks' = Append(tasks, LoginTask(username, password))
    /\ auth' = [auth EXCEPT
                   !.route = ProtectedRoute(HomeRoute, auth.isAuthenticated)]
    /\ UNCHANGED <<formVars, db, failures, detail>>

\* login after its await: no row or an error returns false, a password that
\* does not match returns false, otherwise the state and localStorage are set
LoginReturn(i) ==
    LET t == tasks[i] IN
    /\ t.kind = "login"
    /\ t.pc = "query"
    /\ \E ok \in BOOLEAN :
          LET found == ok /\ t.username \in DOMAIN UsersTable
              passwordMatch ==
                  found /\ compareSync(t.password,
                                       UsersTable[t.username].password_hash)
          IN  /\ ok \/ failures < MaxFailures
              /\ failures' = IF ok THEN failures ELSE failures + 1
              /\ tasks' = [tasks EXCEPT ![i].pc = "done",
                                        ![i].ok = passwordMatch]
              /\ auth' = IF passwordMatch
                         THEN LoggedIn(UsersTable[t.username].id, auth.route)
                         ELSE auth
    /\ UNCHANGED <<formVars, db, detail>>

\* Layout.handleLogout: logout(); navigate('/login')
Logout ==
    /\ auth.isAuthenticated
    /\ auth' = LoggedOut
    /\ UNCHANGED <<formVars, tasks, db, failures, detail>>

\* the user follows a link or enters an address
Navigate ==
    /\ \E route \in Routes :
          /\ auth' = [auth EXCEPT
                         !.route = ProtectedRoute(route, auth.isAuthenticated)]
          /\ auth' # auth
    /\ UNCHANGED <<formVars, tasks, db, failures, detail>>

\* the page is loaded again while a login is in flight: the useState
\* initialisers read localStorage, and the promise is gone with the old page
Reload ==
    /\ \E i \in 1..Len(tasks) : tasks[i].pc = "query"
    /\ tasks' = [i \in 1..Len(tasks) |->
                    IF tasks[i].pc = "query"
                    THEN [tasks[i] EXCEPT !.pc = "dropped"] ELSE tasks[i]]
    /\ auth' = [auth EXCEPT
                   !.isAuthenticated = (auth.pokemaker_auth = "true"),
                   !.user = auth.pokemaker_user,
                   !.route = ProtectedRoute(auth.route,
                                            auth.pokemaker_auth = "true")]
    /\ UNCHANGED <<formVars, db, failures, detail>>

\* the application opened on an empty localStorage
AuthInit ==
    /\ NoForm
    /\ db = <<StoredA>>
    /\ detail = DetailClosed
    /\ auth = LoggedOut

AuthNext ==
    \/ LoginSubmit
    \/ \E i \in 1..Len(tasks) : LoginReturn(i)
    \/ Logout
    \/ Navigate
    \/ Reload

AuthSpec == AuthInit /\ [][AuthNext]_vars

TypeOK ==
    /\ savedPokemonId \in 0..Len(db)
    /\ autoSaveStatus \in {"saved", "saving", "error"}
    /\ Len(tasks) <= MaxTasks
    /\ failures <= MaxFailures
    /\ edits <= MaxEdits

\* ------------------------------------------------------------------ claims
\* the handlers that persist the creature: autoSave, handleSaveDraft, onSubmit
SaveTasks == {i \in 1..Len(tasks) : tasks[i].kind \in {"auto", "draft", "submit"}}

\* the record ids the saves of this session have written to so far
SessionRecordIds ==
    {tasks[i].newId : i \in {j \in SaveTasks : tasks[j].ok}}

\* a save handler was started in this step
SaveStarted ==
    /\ Len(tasks') = Len(tasks) + 1
    /\ tasks'[Len(tasks')].kind \in {"auto", "draft", "submit"}

\* the timeout callback ran in this step: autoSave returned early or issued
\* its request
AutoSaveAttempt ==
    \/ skipped' # skipped
    \/ Len(tasks') = Len(tasks) + 1 /\ tasks'[Len(tasks')].kind = "auto"

\* the name the user sees as empty
BlankName(name) == name \in {Undefined, "", " "}

\* C1: the saves of one editing session write to exactly one record id,
\* whatever number and interleaving of autosaves, Save Draft clicks and final
\* submits occur, also when one starts while another's create is in flight.
C1_OneRecordPerSession ==
    SessionRecordIds # {} => Cardinality(SessionRecordIds) = 1

\* C2: once the client has seen the first save of the session succeed, every
\* save started afterwards is an updatePokemon of that same id, never a
\* createPokemon.
C2_UpdateAfterFirstSave ==
    [][(firstPersistedId # NoId /\ SaveStarted)
         => /\ tasks'[Len(tasks')].op = "update"
            /\ tasks'[Len(tasks')].target = firstPersistedId]_vars

\* C3: once the first save of the session has succeeded and its handler has
\* continued, savedPokemonId holds a record id, whichever path performed the
\* save.
C3_FirstSaveRecordsId ==
    (mounted /\ firstPersistedId # NoId) => savedPokemonId # NoId

\* C4: once savedPokemonId holds a record id it never changes to another one.
C4_SavedIdWrittenOnce ==
    [][savedPokemonId # NoId => savedPokemonId' = savedPokemonId]_vars

\* C5: every field change on the mounted form leaves exactly one pending
\* timer, set to 3 seconds; at most one timer is pending at any time; and an
\* autosave starts only when 3 seconds passed since the last field change.
C5_DebouncedTimer ==
    [][/\ (mounted /\ form' # form)
            => \E h \in DOMAIN timers' :
                   DOMAIN timers' = {h} /\ timers'[h] = TimerDelay
       /\ Cardinality(DOMAIN timers') <= 1
       /\ AutoSaveAttempt => idle = TimerDelay]_vars

\* C5 witness: two edits were made on a fresh form, no effect dependency ever
\* changed, and exactly one autosave attempt ran: the first edit's timer was
\* cancelled by the second edit, whose timer expired after 3 idle seconds.
C5_Witness ==
    /\ mounted
    /\ edits = 2
    /\ savedPokemonId = NoId /\ uploadedImage = "" /\ aiGeneratedImage = ""
    /\ DOMAIN timers = {}
    /\ idle = TimerDelay
    /\ skipped + Cardinality({i \in SaveTasks : tasks[i].kind = "auto"}) = 1

\* an upload whose completion will still write originalDrawingUrl
UploadInFlight ==
    \E i \in 1..Len(tasks) : tasks[i].kind = "upload" /\ tasks[i].pc # "done"

\* C6: after a field change that no save has read yet, while the form is
\* mounted and named, the timer that will start the background save is
\* pending (or an upload is about to restart it), also when no request has
\* failed.  Only a timer starts
\* autoSave and only a field change starts a timer, so a state without one is
\* a state from which, with no further edit, no background save ever runs.
C6_ChangeGetsAutoSaved ==
    (mounted /\ unsaved /\ ~BlankName(form.name) /\ ~UploadInFlight
       /\ failures = 0)
        => DOMAIN timers # {}

\* C7: an autosave attempt made while the name is empty or only whitespace
\* issues no create or update request and leaves autoSaveStatus 'saved'.
C7_BlankNameSkipsAutoSave ==
    [][(AutoSaveAttempt /\ BlankName(form.name))
         => /\ tasks' = tasks
            /\ db' = db
            /\ (mounted => autoSaveStatus' = "saved")]_vars

\* C7 witness: an autosave attempt returned early on a whitespace-only name.
C7_Witness ==
    skipped > 0 /\ form.name = " " /\ autoSaveStatus = "saved" /\ mounted

\* the continuation of autoSave after its backend write failed ran in this step
AutoSaveFailureHandled ==
    \E i \in 1..Len(tasks) :
        /\ tasks[i].kind = "auto"
        /\ tasks[i].pc = "response"
        /\ ~tasks[i].ok
        /\ tasks'[i].pc = "done"
        /\ mounted

SaveCompleted(i) ==
    /\ i \in SaveTasks
    /\ tasks[i].pc # "done"
    /\ tasks'[i].pc = "done"
    /\ tasks'[i].ok

\* C9: when a save of record A whose 'evolves into' names a record that did
\* not exist completes without a failed request, a record with that name
\* exists and its 'evolves from' is A's name.
C9_EvolvesIntoCreatesCounterpart ==
    [][\A i \in 1..Len(tasks) :
          (SaveCompleted(i) /\ tasks[i].fresh /\ ~tasks'[i].linkFailed)
             => \E r \in Ids(db') :
                   /\ db'[r].name = Trim(tasks[i].data.evolvesInto)
                   /\ db'[r].evolvesFrom = tasks[i].data.name]_vars

\* C10: every successful save whose data has an 'evolves into' or 'evolves
\* from' name has run the evolution linking (at least its lookup) by the time
\* it ends, whether it was an autosave, a Save Draft or a final submit.
C10_LinkingAfterEverySave ==
    \A i \in SaveTasks :
        (/\ tasks[i].pc = "done"
         /\ tasks[i].ok
         /\ Truthy(tasks[i].data.evolvesInto) \/ Truthy(tasks[i].data.evolvesFrom))
           => tasks[i].lookups > 0

\* a request of the evolution linking of save i failed in this step
LinkStepFailed(i) ==
    /\ i \in SaveTasks
    /\ tasks[i].pc \in {"find", "create", "update"}
    /\ tasks'[i] # tasks[i]
    /\ failures' = failures + 1

\* C11: when a request of the evolution linking fails (the name lookup, the
\* stub creation or the counterpart update), the primary save stays
\* successful: its record and the whole table are left as they were, no error
\* banner is set, and a final submit whose linking thereby ends navigates away
\* from the form.
C11_LinkFailureKeepsSave ==
    [][\A i \in 1..Len(tasks) :
          LinkStepFailed(i)
             => /\ tasks'[i].ok
                /\ tasks[i].newId \in Ids(db')
                /\ db' = db
                /\ saveError' = saveError
                /\ (mounted /\ tasks[i].kind = "submit" /\ tasks'[i].pc = "done")
                      => ~mounted']_vars

\* C11 witness: a final submit whose counterpart update failed has ended: its
\* record is stored with the submitted name, no banner is shown and the form
\* was left for the detail page.
C11_Witness ==
    \E i \in SaveTasks :
        /\ tasks[i].kind = "submit"
        /\ tasks[i].pc = "done"
        /\ tasks[i].ok
        /\ tasks[i].linkFailed
        /\ tasks[i].lookups > 0
        /\ db[tasks[i].newId].name = tasks[i].data.name
        /\ saveError = NoError
        /\ ~mounted

\* the male and female percentages of a form state or of a row are
\* complementary: neither has a value, or both have and they sum to 100
Complementary(x) ==
    (x.genderRatioMale # UndefinedNumber \/ x.genderRatioFemale # UndefinedNumber)
        => /\ x.genderRatioMale # UndefinedNumber
           /\ x.genderRatioFemale # UndefinedNumber
           /\ x.genderRatioMale + x.genderRatioFemale = 100

C13_GenderComplementary ==
    /\ Complementary(form)
    /\ \A r \in Ids(db) : Complementary(db[r])

\* the upload of a selected drawing returned its URL in this step
DrawingUploaded ==
    \E i \in 1..Len(tasks) :
        /\ tasks[i].kind = "upload"
        /\ tasks[i].pc = "storage"
        /\ tasks'[i].pc = "done"
        /\ tasks'[i].ok

\* C14: the step that selects a drawing starts its upload, whatever the state
\* of the saves; the step in which the upload succeeds puts the file in the
\* bucket and its URL in the form's originalDrawingUrl; and no later step
\* removes the file from the bucket or the URL from the form.
C14_DrawingStoredOnSelection ==
    [][/\ uploadedImage' # uploadedImage
            => /\ Len(tasks') = Len(tasks) + 1
               /\ tasks'[Len(tasks')].kind = "upload"
               /\ tasks'[Len(tasks')].pc = "storage"
       /\ DrawingUploaded
            => "drawing" \in storage' /\ form'.originalDrawingUrl = "drawing"
       /\ storage \subseteq storage'
       /\ form.originalDrawingUrl = "drawing"
            => form'.originalDrawingUrl = "drawing"]_vars

\* C14 witness: a drawing was selected and uploaded in a session in which no
\* save was ever started, and the form was left afterwards: the file and the
\* form's reference are still there.
C14_Witness ==
    /\ SaveTasks = {}
    /\ ~mounted
    /\ "drawing" \in storage
    /\ form.originalDrawingUrl = "drawing"
    /\ \E i \in 1..Len(tasks) : tasks[i].kind = "generate" /\ ~tasks[i].ok

\* the create or update request of save i was answered in this step
WriteAnswered(i) ==
    /\ i \in SaveTasks
    /\ tasks[i].pc = "request"
    /\ tasks'[i].pc = "response"

GenerationFailed(i) ==
    /\ tasks[i].kind = "generate"
    /\ tasks[i].pc \in {"vision", "storage"}
    /\ tasks'[i].pc = "done"
    /\ ~tasks'[i].ok

\* C16: when the vision analysis, the image generation or the upload of the
\* generated image fails, the form values, the selected drawing and its URL,
\* and the artwork generated before are all left as they were, and the
\* generating flag is false afterwards.
C16_GenerationFailureKeepsData ==
    [][\A i \in 1..Len(tasks) :
          GenerationFailed(i)
             => /\ form' = form
                /\ uploadedImage' = uploadedImage
                /\ aiGeneratedImage' = aiGeneratedImage
                /\ storage' = storage
                /\ db' = db
                /\ mounted => ~isGeneratingImage']_vars

\* C16 witness: on a record that had artwork, the name was edited, a drawing
\* was uploaded and a generation failed: name, drawing URL and the earlier
\* artwork are all still there and the flag is down.
C16_Witness ==
    /\ mounted
    /\ form.name = " "
    /\ form.originalDrawingUrl = "drawing"
    /\ uploadedImage = "file"
    /\ aiGeneratedImage = "old"
    /\ ~isGeneratingImage
    /\ saveError = "Failed to generate image"
    /\ \E i \in 1..Len(tasks) :
          tasks[i].kind = "generate" /\ tasks[i].pc = "done" /\ ~tasks[i].ok

\* C20: whichever shape of imageUrl the endpoint answers with, a generation
\* none of whose requests failed ends with the artwork uploaded and its
\* reference stored in the form's state.
C20_BothReturnShapes ==
    [][\A i \in 1..Len(tasks) :
          (/\ tasks[i].kind = "generate"
           /\ tasks[i].pc \in {"vision", "storage"}
           /\ tasks'[i].pc = "done"
           /\ failures' = failures)
             => /\ tasks'[i].ok
                /\ "artwork" \in storage'
                /\ mounted => aiGeneratedImage' = "artwork"]_vars

\* C17: the name is the only mandatory field and always enforced: after every
\* step every stored record has a name that is neither missing nor empty,
\* and a save is rejected only when the backend fails or the name is missing
\* or empty.
C17_NameAlwaysRequired ==
    [][/\ \A r \in Ids(db') : Truthy(db'[r].name)
       /\ \A i \in 1..Len(tasks) :
             (WriteAnswered(i) /\ ~tasks'[i].ok)
                => failures' = failures + 1 \/ ~Truthy(tasks[i].data.name)]_vars

\* C18: every record a step adds to the table, a primary record as well as
\* an evolution stub, is stored with the logged-in user as its owner.
C18_OwnerAttachedAtCreation ==
    [][\A r \in Ids(db') \ Ids(db) : db'[r].userId = CurrentUser]_vars

\* C19: a call of updatePokemon or deletePokemon with a userId, on a record
\* whose owner is set and is someone else, never modifies or deletes anything:
\* its only step leaves the table as it is and ends the call with an error,
\* which is the permission error whenever the ownership lookup was answered.
C19_ForeignCallerRejected ==
    [][\A i \in 1..Len(tasks) :
          (/\ tasks'[i] # tasks[i]
           /\ tasks[i].userId # Undefined
           /\ db[tasks[i].target].userId \notin {Undefined, tasks[i].userId})
             => /\ db' = db
                /\ tasks'[i].pc = "done"
                /\ ~tasks'[i].ok
                /\ (failures' = failures /\ ~db[tasks[i].target].deleted)
                      => tasks'[i].thrown = PermissionError(tasks[i].kind)]_vars

\* C19 witness: the other user called updatePokemon and deletePokemon on the
\* current user's record; both calls ended with the permission error and the
\* record is as it was.
C19_Witness ==
    /\ Len(tasks) = 2
    /\ tasks[1].kind = "update" /\ tasks[2].kind = "delete"
    /\ \A i \in 1..2 : /\ tasks[i].target = 1
                        /\ tasks[i].userId = OtherUser
                        /\ tasks[i].pc = "done"
                        /\ tasks[i].thrown = PermissionError(tasks[i].kind)
    /\ db[1] = StoredA

\* the stored records that carry a name, compared without case
NameCount(d, name) ==
    Cardinality({k \in Ids(d) : /\ ~d[k].deleted
                                /\ d[k].name # Undefined
                                /\ Lower(d[k].name) = Lower(name)})

\* C21: during evolution linking a stub is created only if no record with
\* that name exists: a linking step whose name is already carried by one or
\* more records, whether the lookup found it, missed it or failed, leaves the
\* number of records with that name as it is.
C21_StubOnlyWhenAbsent ==
    [][\A i \in 1..Len(tasks) :
          (/\ tasks[i].pc \in {"find", "create"}
           /\ tasks'[i] # tasks[i]
           /\ NameCount(db, LinkName(tasks[i])) >= 1)
             => NameCount(db', LinkName(tasks[i]))
                    = NameCount(db, LinkName(tasks[i]))]_vars

\* the evolution linking of save i ended in this step and none of its
\* requests failed
LinkingCompleted(i) ==
    /\ SaveCompleted(i)
    /\ tasks[i].pc \in {"find", "create", "update"}
    /\ ~tasks'[i].linkFailed

\* the stored records a name designates
Named(d, name) ==
    {r \in Ids(d) : /\ ~d[r].deleted
                    /\ d[r].name # Undefined
                    /\ Lower(d[r].name) = Lower(Trim(name))}

\* C22: when the evolution linking of a save of record A completes, the
\* record named in A's 'evolves into' exists and has 'evolves from' equal to
\* A's name, and the record named in A's 'evolves from' exists and has
\* 'evolves into' equal to A's name.
C22_BothSidesAgree ==
    [][\A i \in 1..Len(tasks) :
          LinkingCompleted(i)
             => LET A == tasks[i].data IN
                /\ LinkNeeded(A.evolvesInto)
                     => /\ Named(db', A.evolvesInto) # {}
                        /\ \A r \in Named(db', A.evolvesInto) :
                               db'[r].evolvesFrom = A.name
                /\ LinkNeeded(A.evolvesFrom)
                     => /\ Named(db', A.evolvesFrom) # {}
                        /\ \A r \in Named(db', A.evolvesFrom) :
                               db'[r].evolvesInto = A.name]_vars

\* C23: a delete request is issued only by the Delete button of the open
\* confirmation dialog, and the dialog opens only by the Delete button of the
\* page, in a step that issues nothing; a record is removed only by such a
\* request; cancelling the dialog issues no request and removes nothing.
C23_DeleteOnlyAfterConfirm ==
    [][/\ Len(tasks') > Len(tasks)
            => /\ detail.showDeleteConfirm
               /\ tasks'[Len(tasks')].kind = "delete"
               /\ tasks'[Len(tasks')].target = detail.id
       /\ detail'.showDeleteConfirm # detail.showDeleteConfirm
            => tasks' = tasks /\ db' = db
       /\ \A r \in Ids(db') :
             db'[r].deleted
                => \E i \in 1..Len(tasks') :
                      /\ tasks'[i].kind = "delete"
                      /\ tasks'[i].target = r
                      /\ tasks'[i].ok]_vars

\* C23 witness: the owner opened the dialog and cancelled it, opened it
\* again and confirmed: the one request that was issued removed the record
\* and the page was left for the gallery.
C23_Witness ==
    /\ detail.cancelled
    /\ detail.showDeleteConfirm
    /\ ~detail.open
    /\ Len(tasks) = 1
    /\ tasks[1].ok /\ tasks[1].returned
    /\ db[detail.id].deleted
    /\ auth.route = GalleryRoute

\* the catch block of Save Draft or of the final submit i ran in this step,
\* on the mounted form, after its create or update request failed
SaveFailureHandled(i) ==
    /\ tasks[i].kind \in {"draft", "submit"}
    /\ tasks[i].pc = "response"
    /\ ~tasks[i].ok
    /\ tasks'[i].pc # "response"
    /\ mounted

\* C24: when the backend write of a Save Draft or final submit fails, the
\* handler ends there: the error banner is set, savedPokemonId is unchanged,
\* nothing is written, the form stays mounted (no navigation) and isSaving is
\* false again.
C24_SaveFailureShown ==
    [][\A i \in 1..Len(tasks) :
          SaveFailureHandled(i)
             => /\ saveError' # NoError
                /\ savedPokemonId' = savedPokemonId
                /\ db' = db
                /\ tasks'[i].pc = "done"
                /\ mounted'
                /\ ~isSaving']_vars

\* C24 witness: a final submit failed and its handler ended on the mounted
\* form; the button was used again and the second submit's write succeeded.
C24_Witness ==
    /\ Len(tasks) = 2
    /\ tasks[1].kind = "submit" /\ tasks[1].pc = "done" /\ ~tasks[1].ok
    /\ tasks[2].kind = "submit" /\ tasks[2].pc = "response" /\ tasks[2].ok
    /\ failures = 1
    /\ mounted
    /\ isSaving

\* the call i of login returned in this step
LoginReturned(i) == tasks[i].pc = "query" /\ tasks'[i].pc = "done"

\* the credentials of login call i: the username is in the users table and
\* the password is the one its hash was made from
ValidCredentials(i) ==
    /\ tasks[i].username \in DOMAIN UsersTable
    /\ UsersTable[tasks[i].username].password_hash
           = <<"$2a$10$", tasks[i].password>>

\* C25: a protected page is rendered only while isAuthenticated is true;
\* isAuthenticated becomes true only in the step in which a login with a
\* known username and the matching password returns; and the return of a
\* login with an unknown username or a wrong password leaves the
\* authentication state, the cached user and the rendered route unchanged.
C25_AccessOnlyAfterLogin ==
    [][/\ auth'.route # LoginRoute => auth'.isAuthenticated
       /\ (~auth.isAuthenticated /\ auth'.isAuthenticated)
            => \E i \in 1..Len(tasks) :
                  /\ LoginReturned(i)
                  /\ ValidCredentials(i)
                  /\ auth'.user = UsersTable[tasks[i].username].id
       /\ \A i \in 1..Len(tasks) :
             (LoginReturned(i) /\ ~ValidCredentials(i)) => auth' = auth]_vars

\* C25 witness: a login with a wrong password returned false, a login with
\* the right one returned true, and a protected page is rendered for the
\* user of that login.
C25_Witness ==
    /\ Len(tasks) = 2
    /\ tasks[1].username = "aza" /\ tasks[1].password = "eevee"
    /\ tasks[1].pc = "done" /\ ~tasks[1].ok
    /\ tasks[2].username = "aza" /\ tasks[2].password = "pikachu"
    /\ tasks[2].pc = "done" /\ tasks[2].ok
    /\ auth.isAuthenticated
    /\ auth.user = CurrentUser
    /\ auth.pokemaker_user = CurrentUser
    /\ auth.route = "/create"

\* C26: once the form is unmounted, by leaving the page or by the navigation
\* that ends a final submit, no timer is pending any more and no autosave
\* attempt is made.
C26_NoAutoSaveAfterUnmount ==
    [][/\ ~mounted' => DOMAIN timers' = {}
       /\ ~mounted => ~AutoSaveAttempt]_vars

\* C26 witness: in an edit session a field was changed while the final
\* submit was in flight; the submit navigated away less than 3 seconds after
\* the change, with the change's timer still pending, and no timer is left.
C26_Witness ==
    /\ editMode
    /\ ~mounted
    /\ unsaved
    /\ idle < TimerDelay
    /\ autoSaveTimeoutRef # 0
    /\ skipped = 0
    /\ DOMAIN timers = {}
    /\ Len(tasks) = 1
    /\ tasks[1].kind = "submit" /\ tasks[1].pc = "done" /\ tasks[1].ok

\* the text fields of a save that updatePokemon writes when they have a value
TextFields == {"name", "evolvesInto", "evolvesFrom", "evolutionStage"}

\* the write of save k was answered with success in this step, when the
\* write of save other, to the same record, had succeeded before: both are
\* written now
SecondWriteOfTwo(k, other) ==
    /\ WriteAnswered(k)
    /\ tasks'[k].ok
    /\ tasks[other].pc # "request"
    /\ tasks[other].ok
    /\ tasks[k].op = "update"
    /\ tasks[other].newId = tasks[k].target

\* C27: once two saves of the same record are both written, the record holds
\* every value of the save that was started last, whichever of the two
\* requests the backend served last (the earlier one can be served last only
\* when the two were in flight together).
C27_LastStartedSaveWins ==
    [][\A i, j \in 1..Len(tasks) :
          (i < j /\ (SecondWriteOfTwo(i, j) \/ SecondWriteOfTwo(j, i)))
             => \A f \in TextFields :
                   Truthy(tasks[j].data[f])
                      => db'[tasks'[j].newId][f] = tasks[j].data[f]]_vars

\* the columns the linking update may change on the counterpart
LinkColumns(dir) ==
    IF dir = "into" THEN {"evolvesFrom", "evolutionStage"} ELSE {"evolvesInto"}

\* C28: the step in which evolution linking updates a counterpart record
\* changes, in the whole table, nothing but that record's reverse-link field
\* and, in the 'evolves into' direction, its evolutionStage: its name, owner,
\* images, gender values and other evolution field stay as they were, and so
\* does every other record.
C28_LinkUpdateFrame ==
    [][\A i \in 1..Len(tasks) :
          (i \in SaveTasks /\ tasks[i].pc = "update" /\ tasks'[i] # tasks[i])
             => /\ Len(db') = Len(db)
                /\ \A r \in Ids(db) : \A f \in DOMAIN NoFields :
                       (r # tasks[i].link \/ f \notin LinkColumns(tasks[i].dir))
                          => db'[r][f] = db[r][f]]_vars

\* C28 witness: the record B of another user, which existed before the
\* session, was linked as the 'evolves into' of the saved record A: it has
\* its reverse link and stage, and its name and owner are as before.
C28_Witness ==
    /\ Len(db) >= 2
    /\ db[1].name = "B"
    /\ db[1].userId = OtherUser
    /\ db[1].evolvesFrom = "A"
    /\ db[1].evolutionStage = "Stage 2"
    /\ db[1].evolvesInto = Undefined
    /\ \E i \in SaveTasks :
          /\ tasks[i].pc = "done" /\ ~tasks[i].linkFailed
          /\ tasks[i].lookups > 0
          /\ tasks[i].data.evolvesInto = "b"

\* the text and URL fields of a record
TextAndUrlFields ==
    TextFields \cup {"originalDrawingUrl", "aiGeneratedImageUrl"}

LinkUpdated(i) ==
    /\ i \in SaveTasks
    /\ tasks[i].pc = "update"
    /\ tasks'[i] # tasks[i]
    /\ failures' = failures

\* C30: the linking update in the 'evolves into' direction leaves the
\* counterpart with stage 'Stage 1' when the saved record's stage is 'Basic'
\* and with 'Stage 2' when it is 'Stage 1', 'Stage 2' or absent, whatever
\* stage the counterpart had; the update in the 'evolves from' direction
\* leaves the counterpart's stage as it was.
C30_CounterpartStage ==
    [][\A i \in 1..Len(tasks) :
          LinkUpdated(i)
             => LET A == tasks[i].data
                    r == tasks[i].link
                IN  /\ (tasks[i].dir = "into" /\ A.evolutionStage = "Basic")
                          => db'[r].evolutionStage = "Stage 1"
                    /\ (tasks[i].dir = "into" /\ A.evolutionStage # "Basic")
                          => db'[r].evolutionStage = "Stage 2"
                    /\ tasks[i].dir = "from"
                          => db'[r].evolutionStage = db[r].evolutionStage]_vars

\* C30 witness: record A of stage 'Stage 2' was linked in both directions to
\* records that were stored as 'Basic': the one it evolves into has become
\* 'Stage 2', the one it evolves from is still 'Basic'.
C30_Witness ==
    /\ Len(db) = 3
    /\ db[1].evolutionStage = "Stage 2"
    /\ db[2].name = "B" /\ db[2].evolvesFrom = "A"
    /\ db[2].evolutionStage = "Stage 2"
    /\ db[3].name = "C" /\ db[3].evolvesInto = "A"
    /\ db[3].evolutionStage = "Basic"
    /\ \E i \in SaveTasks : tasks[i].pc = "done" /\ ~tasks[i].linkFailed
                               /\ tasks[i].lookups = 2

====
